---------------------------- MODULE Spec2Model ----------------------------
(***************************************************************************)
(* rbrew: the video capability gate (lib/rbrew-gc/src/gfx/video.rs), the   *)
(* register-map compiler iotype2 (shared/rbrew-shared-macros/src/iotype.rs)*)
(* and the record-splitting loop of the build orchestrator (src/main.rs).  *)
(***************************************************************************)
EXTENDS Integers, Sequences, FiniteSets, TLC

(***************************************************************************)
(* Bounds of the model.                                                    *)
(***************************************************************************)
\* number of execution contexts that use the gate
NumCtx == 2
\* total number of gate operations started over a run
MaxCalls == 4

\* u64 is modelled as an unsigned integer of WordBits bits
WordBits == 4
\* field offsets of a schema range over 0..MaxOffset
MaxOffset == 6
\* number of fields in a schema body
MaxFields == 2
\* length, in characters, of the toolchain's output
MaxLen == 4

Ctx == 1..NumCtx

VARIABLES
    \* ---- video.rs: the capability gate
    IS_INIT,            \* static IS_INIT: AtomicBool
    pc,                 \* per context: position inside init()
    op,                 \* per context: the public operation in progress
    loaded,             \* per context: the value IS_INIT.load returned
    vcHeld,             \* per context: provenances of the VideoContext tokens held
    fbHeld,             \* per context: provenances of the Framebuffer tokens held
    calls,              \* per context: operations started
    init_video_count,   \* executions of init_video (Framebuffer::init)
    initLog,            \* per context: results of its init() calls, in order
    entryFlag,          \* per context: IS_INIT when its current init() was entered
    ranVideo,           \* per context: its last init() executed init_video
    written,            \* values ever stored to IS_INIT
    panicked            \* global() took its panic! arm

gateVars == <<IS_INIT, pc, op, loaded, vcHeld, fbHeld, calls, init_video_count,
              initLog, entryFlag, ranVideo, written, panicked>>

VARIABLES
    \* ---- iotype.rs: one expansion of iotype2
    io_pc,              \* "off", "fields", "emitted", "panic_unaligned", "panic_overflow"
    base_adr,           \* IoTypeItem.base_adr
    len,                \* IoTypeItem.len
    overflow_checks,    \* the macro crate is built with overflow checks
    fns,                \* the fields whose accessors have been generated
    last                \* the field handled by the latest closure call, and its outcome

ioVars == <<io_pc, base_adr, len, overflow_checks, fns, last>>

VARIABLES
    \* ---- main.rs: the record-splitting loop of build()
    sp_pc,              \* "off", "peek", "take", "parse", "done", "panicked"
    utf8,               \* the toolchain's output
    pos,                \* position of iter: index of the next character
    brace_i,            \* let mut i = 0usize
    string,             \* the characters take_while has yielded so far
    jsons,              \* let mut jsons = vec![]
    strings             \* every value `string` was bound to, in order

splitVars == <<sp_pc, utf8, pos, brace_i, string, jsons, strings>>

vars == <<gateVars, ioVars, splitVars>>

notGate == <<ioVars, splitVars>>
notIo == <<gateVars, splitVars>>
notSplit == <<gateVars, ioVars>>

(***************************************************************************)
(* video.rs                                                                *)
(***************************************************************************)
RECURSIVE SumCalls(_, _)
SumCalls(f, S) == IF S = {} THEN 0
                  ELSE LET t == CHOOSE x \in S : TRUE
                       IN  f[t] + SumCalls(f, S \ {t})

\* Framebuffer::init: Ok(())
FramebufferInit == "Ok"

\* VideoContext::init_video: Framebuffer::init()?; Ok(())
init_video == IF FramebufferInit = "Ok" THEN "Ok" ELSE FramebufferInit

\* the test of line 56 with the opposite sense: the branch is taken when the
\* flag was clear
InitTestNegated(v) == ~v

\* the test of line 56 on the loaded value
InitTest(v) == v

\* line 57 storing false
StoredValueFalse == FALSE

\* the value line 57 stores
StoredValue == TRUE

\* static IS_INIT: AtomicBool = AtomicBool::new(false)
GateInit ==
    /\ IS_INIT = FALSE
    /\ pc = [t \in Ctx |-> "idle"]
    /\ op = [t \in Ctx |-> "none"]
    /\ loaded = [t \in Ctx |-> FALSE]
    /\ vcHeld = [t \in Ctx |-> {}]
    /\ fbHeld = [t \in Ctx |-> {}]
    /\ calls = [t \in Ctx |-> 0]
    /\ init_video_count = 0
    /\ initLog = [t \in Ctx |-> <<>>]
    /\ entryFlag = [t \in Ctx |-> FALSE]
    /\ ranVideo = [t \in Ctx |-> FALSE]
    /\ written = {}
    /\ panicked = FALSE

\* a context enters init(), directly or through global() / Framebuffer::global()
Call(t, o) ==
    /\ UNCHANGED notGate
    /\ pc[t] = "idle"
    /\ ~panicked
    /\ SumCalls(calls, Ctx) < MaxCalls
    /\ o \in {"init", "global", "fb_global"}
    /\ pc' = [pc EXCEPT ![t] = "load"]
    /\ op' = [op EXCEPT ![t] = o]
    /\ calls' = [calls EXCEPT ![t] = @ + 1]
    /\ entryFlag' = [entryFlag EXCEPT ![t] = IS_INIT]
    /\ ranVideo' = [ranVideo EXCEPT ![t] = FALSE]
    /\ UNCHANGED <<IS_INIT, loaded, vcHeld, fbHeld, init_video_count, initLog,
                   written, panicked>>

\* line 56: IS_INIT.load(Ordering::Acquire)
Load(t) ==
    /\ UNCHANGED notGate
    /\ pc[t] = "load"
    /\ loaded' = [loaded EXCEPT ![t] = IS_INIT]
    /\ pc' = [pc EXCEPT ![t] = "branch"]
    /\ UNCHANGED <<IS_INIT, op, vcHeld, fbHeld, calls, init_video_count, initLog,
                   entryFlag, ranVideo, written, panicked>>

\* lines 56-57 and 59-60: the if on the loaded value; the true arm stores the flag
Branch(t) ==
    /\ UNCHANGED notGate
    /\ pc[t] = "branch"
    /\ IF InitTest(loaded[t])
       THEN /\ IS_INIT' = StoredValue
            /\ written' = written \cup {StoredValue}
            /\ pc' = [pc EXCEPT ![t] = "init_video"]
       ELSE /\ pc' = [pc EXCEPT ![t] = "ret_err"]
            /\ UNCHANGED <<IS_INIT, written>>
    /\ UNCHANGED <<op, loaded, vcHeld, fbHeld, calls, init_video_count, initLog,
                   entryFlag, ranVideo, panicked>>

\* line 58 (Self::init_video()) or line 60 (Err(AlreadyInitialized)), then the
\* caller's continuation: lines 66-70 for global(), line 99 for
\* Framebuffer::global()
Finish(t) ==
    /\ UNCHANGED notGate
    /\ pc[t] \in {"init_video", "ret_err"}
    /\ LET ran == pc[t] = "init_video"
           r   == IF ran THEN init_video ELSE "AlreadyInitialized"
           bad == op[t] # "init" /\ r \notin {"AlreadyInitialized", "Ok"}
       IN  /\ init_video_count' = IF ran THEN init_video_count + 1
                                  ELSE init_video_count
           /\ ranVideo' = [ranVideo EXCEPT ![t] = ran]
           /\ initLog' = [initLog EXCEPT ![t] = Append(@, r)]
           /\ panicked' = (panicked \/ bad)
           /\ vcHeld' = IF op[t] = "global" /\ ~bad
                        THEN [vcHeld EXCEPT ![t] = @ \cup {"checked"}]
                        ELSE vcHeld
           /\ fbHeld' = IF op[t] = "fb_global" /\ ~bad
                        THEN [fbHeld EXCEPT ![t] = @ \cup {"checked"}]
                        ELSE fbHeld
    /\ pc' = [pc EXCEPT ![t] = "idle"]
    /\ UNCHANGED <<IS_INIT, op, loaded, calls, entryFlag, written>>

\* lines 76-78: unsafe fn global_unchecked
GlobalUnchecked(t) ==
    /\ UNCHANGED notGate
    /\ pc[t] = "idle"
    /\ ~panicked
    /\ SumCalls(calls, Ctx) < MaxCalls
    /\ "unchecked" \notin vcHeld[t]
    /\ vcHeld' = [vcHeld EXCEPT ![t] = @ \cup {"unchecked"}]
    /\ calls' = [calls EXCEPT ![t] = @ + 1]
    /\ op' = [op EXCEPT ![t] = "global_unchecked"]
    /\ UNCHANGED <<IS_INIT, pc, loaded, fbHeld, init_video_count, initLog,
                   entryFlag, ranVideo, written, panicked>>

\* lines 81-83: fn frambuffer(self) -> Framebuffer
Frambuffer(t) ==
    /\ UNCHANGED notGate
    /\ pc[t] = "idle"
    /\ ~panicked
    /\ SumCalls(calls, Ctx) < MaxCalls
    /\ \E p \in vcHeld[t] :
          /\ p \notin fbHeld[t]
          /\ fbHeld' = [fbHeld EXCEPT ![t] = @ \cup {p}]
    /\ calls' = [calls EXCEPT ![t] = @ + 1]
    /\ op' = [op EXCEPT ![t] = "frambuffer"]
    /\ UNCHANGED <<IS_INIT, pc, loaded, vcHeld, init_video_count, initLog,
                   entryFlag, ranVideo, written, panicked>>

GateNext ==
    \E t \in Ctx :
        \/ \E o \in {"init", "global", "fb_global"} : Call(t, o)
        \/ Load(t)
        \/ Branch(t)
        \/ Finish(t)
        \/ GlobalUnchecked(t)
        \/ Frambuffer(t)

(***************************************************************************)
(* iotype.rs                                                               *)
(***************************************************************************)
U64 == 0..(2^WordBits - 1)

Primitives == {"U8", "U16", "U32", "U64"}

\* Primitive::align
Align(p) == CASE p = "U8"  -> 1
              [] p = "U16" -> 2
              [] p = "U32" -> 4
              [] p = "U64" -> 8

\* the operator & on unsigned integers
RECURSIVE BitAnd(_, _)
BitAnd(a, b) == IF a = 0 \/ b = 0 THEN 0
                ELSE (a % 2) * (b % 2) + 2 * BitAnd(a \div 2, b \div 2)

\* the asserted condition with the mask align instead of align - 1
AlignedMaskOffByOne(sum, align) == BitAnd(sum, align) = 0

\* lines 135-138: the asserted condition, on the computed sum
Aligned(sum, align) == BitAnd(sum, align - 1) = 0

\* IoField, without ident and writable (they select the names and the set
\* of the generated functions only)
IoFields == [primitive : Primitives, offset : 0..MaxOffset]

NoField == [primitive |-> "none", offset |-> 0, outcome |-> "none"]

IoIdle ==
    /\ io_pc = "off"
    /\ base_adr = 0
    /\ len = 0
    /\ overflow_checks = FALSE
    /\ fns = <<>>
    /\ last = NoField

\* lines 112-119: the parsed IoTypeItem; the body is read field by field
IoInit ==
    /\ io_pc = "fields"
    /\ base_adr \in U64
    /\ len \in {4, 2^WordBits - 1}
    /\ overflow_checks \in BOOLEAN
    /\ fns = <<>>
    /\ last = NoField

\* lines 124-182: the closure applied to the next field of the body
IoField(f) ==
    /\ UNCHANGED notIo
    /\ io_pc = "fields"
    /\ Len(fns) < MaxFields
    /\ LET full  == base_adr + f.offset
           sum   == full % (2^WordBits)
           align == Align(f.primitive)
           out   == IF full # sum /\ overflow_checks THEN "overflow"
                    ELSE IF ~Aligned(sum, align) THEN "unaligned"
                    ELSE "accepted"
       IN  /\ last' = [primitive |-> f.primitive, offset |-> f.offset,
                       outcome |-> out]
           /\ io_pc' = CASE out = "overflow"  -> "panic_overflow"
                          [] out = "unaligned" -> "panic_unaligned"
                          [] out = "accepted"  -> "fields"
           /\ fns' = IF out = "accepted" THEN Append(fns, f) ELSE <<>>
    /\ UNCHANGED <<base_adr, len, overflow_checks>>

\* lines 185-200: the body is exhausted and the module is emitted
IoEmit ==
    /\ UNCHANGED notIo
    /\ io_pc = "fields"
    /\ io_pc' = "emitted"
    /\ UNCHANGED <<base_adr, len, overflow_checks, fns, last>>

IoNext ==
    \/ \E f \in IoFields : IoField(f)
    \/ IoEmit

(***************************************************************************)
(* main.rs, build(): lines 254-274                                         *)
(***************************************************************************)
\* the characters the loop tells apart: the two braces, a newline ("n") and
\* any other character ("a")
Chars == {"{", "}", "n", "a"}

RECURSIVE SeqsUpTo(_)
SeqsUpTo(n) == IF n = 0 THEN {<<>>}
               ELSE LET shorter == SeqsUpTo(n - 1)
                    IN  shorter \cup {Append(q, c) : q \in shorter, c \in Chars}

\* nesting depth after the first k characters of s
RECURSIVE Depth(_, _)
Depth(s, k) == IF k = 0 THEN 0
               ELSE Depth(s, k - 1) + (CASE s[k] = "{" -> 1
                                         [] s[k] = "}" -> -1
                                         [] OTHER -> 0)

\* s is one object: it opens with a brace that its last character closes
BalancedObject(s) ==
    /\ Len(s) >= 2
    /\ s[1] = "{"
    /\ Depth(s, Len(s)) = 0
    /\ \A k \in 1..(Len(s) - 1) : Depth(s, k) > 0

\* json::parse(&string) is Ok: of the strings over Chars that open with a
\* brace or are empty, the JSON documents are the objects
JsonParseOk(s) == BalancedObject(s)

\* line 267: i.saturating_sub(1)
SaturatingSub1(i) == IF i = 0 THEN 0 ELSE i - 1

\* lines 265-269: the match on the character
Count(i, c) == CASE c = "{" -> i + 1
                 [] c = "}" -> SaturatingSub1(i)
                 [] OTHER -> i

SplitIdle ==
    /\ sp_pc = "off"
    /\ utf8 = <<>>
    /\ pos = 1
    /\ brace_i = 0
    /\ string = <<>>
    /\ jsons = <<>>
    /\ strings = <<>>

\* lines 254-256
SplitInit ==
    /\ sp_pc = "peek"
    /\ utf8 \in SeqsUpTo(MaxLen)
    /\ pos = 1
    /\ brace_i = 0
    /\ string = <<>>
    /\ jsons = <<>>
    /\ strings = <<>>

\* lines 258-261: let mut i = 0; break when the iterator is exhausted
SplitPeek ==
    /\ UNCHANGED notSplit
    /\ sp_pc = "peek"
    /\ brace_i' = 0
    /\ string' = <<>>
    /\ sp_pc' = IF pos > Len(utf8) THEN "done" ELSE "take"
    /\ UNCHANGED <<utf8, pos, jsons, strings>>

\* lines 262-272: one call of next() on iter.by_ref().take_while(..): the
\* character is taken from the iterator, counted, and is yielded only while
\* i > 0 afterwards
SplitTake ==
    /\ UNCHANGED notSplit
    /\ sp_pc = "take"
    /\ IF pos > Len(utf8)
       THEN /\ sp_pc' = "parse"
            /\ UNCHANGED <<pos, brace_i, string>>
       ELSE LET c  == utf8[pos]
                ni == Count(brace_i, c)
            IN  /\ pos' = pos + 1
                /\ brace_i' = ni
                /\ string' = IF ni > 0 THEN Append(string, c) ELSE string
                /\ sp_pc' = IF ni > 0 THEN "take" ELSE "parse"
    /\ UNCHANGED <<utf8, jsons, strings>>

\* line 273: jsons.push(json::parse(&string).expect("expected valid json"))
SplitParse ==
    /\ UNCHANGED notSplit
    /\ sp_pc = "parse"
    /\ strings' = Append(strings, string)
    /\ IF JsonParseOk(string)
       THEN /\ jsons' = Append(jsons, string)
            /\ sp_pc' = "peek"
       ELSE /\ sp_pc' = "panicked"
            /\ UNCHANGED jsons
    /\ UNCHANGED <<utf8, pos, brace_i, string>>

SplitNext ==
    \/ SplitPeek
    \/ SplitTake
    \/ SplitParse

(***************************************************************************)
(* Specifications                                                          *)
(***************************************************************************)
\* the gate, from the state the program starts in
Init == GateInit /\ IoIdle /\ SplitIdle
Next == GateNext
Spec == Init /\ [][Next]_vars

\* the gate's operations entered in either state of its lifecycle:
\* Uninitialized, or Initialized with the init routine run once
GateInitAny ==
    /\ IS_INIT \in BOOLEAN
    /\ init_video_count = (IF IS_INIT THEN 1 ELSE 0)
    /\ pc = [t \in Ctx |-> "idle"]
    /\ op = [t \in Ctx |-> "none"]
    /\ loaded = [t \in Ctx |-> FALSE]
    /\ vcHeld = [t \in Ctx |-> {}]
    /\ fbHeld = [t \in Ctx |-> {}]
    /\ calls = [t \in Ctx |-> 0]
    /\ initLog = [t \in Ctx |-> <<>>]
    /\ entryFlag = [t \in Ctx |-> FALSE]
    /\ ranVideo = [t \in Ctx |-> FALSE]
    /\ written = {}
    /\ panicked = FALSE

InitAny == GateInitAny /\ IoIdle /\ SplitIdle
SpecAnyState == InitAny /\ [][Next]_vars

\* one expansion of iotype2
InitIo == GateInit /\ IoInit /\ SplitIdle
SpecIo == InitIo /\ [][IoNext]_vars

\* one run of the record-splitting loop
InitSplit == GateInit /\ IoIdle /\ SplitInit
SpecSplit == InitSplit /\ [][SplitNext]_vars

(***************************************************************************)
(* Properties of the gate                                                  *)
(***************************************************************************)
\* the result of the latest init() of context t to have returned
LastRes(t) == IF initLog[t] = <<>> THEN "none" ELSE initLog[t][Len(initLog[t])]

\* C1: in a sequence of init() calls made by one context from the initial
\* flag value, the first call returns Ok and every later one returns
\* Err(AlreadyInitialized).
C1_FirstOkThenAlreadyInitialized ==
    \A t \in Ctx :
        ((\A u \in Ctx \ {t} : calls[u] = 0) /\ initLog[t] # <<>>)
            => /\ initLog[t][1] = "Ok"
               /\ \A i \in 2..Len(initLog[t]) :
                      initLog[t][i] = "AlreadyInitialized"

\* C2: when two contexts have each called init() once from Uninitialized and
\* both calls have returned, the init routine has been executed exactly once.
C2_ConcurrentInitRunsOnce ==
    (/\ \A t \in {1, 2} : calls[t] = 1 /\ op[t] = "init" /\ pc[t] = "idle"
     /\ \A t \in Ctx \ {1, 2} : calls[t] = 0)
        => init_video_count = 1

\* C3: every global() (and Framebuffer::global()) call that has returned has
\* returned a token, the panic arm is never taken, and the init routine has
\* been executed at most once over the whole run.
C3_GlobalTokenNoPanicInitAtMostOnce ==
    /\ ~panicked
    /\ init_video_count <= 1
    /\ \A t \in Ctx :
          pc[t] = "idle" =>
              /\ op[t] = "global" => "checked" \in vcHeld[t]
              /\ op[t] = "fb_global" => "checked" \in fbHeld[t]

\* every context has made two calls, the latest a global() that returned
C3_Witness ==
    \A t \in Ctx :
        /\ calls[t] >= 2
        /\ op[t] = "global"
        /\ pc[t] = "idle"
        /\ "checked" \in vcHeld[t]

C5_CheckedTokenImpliesInitialized ==
    \A t \in Ctx : "checked" \in (vcHeld[t] \cup fbHeld[t]) => IS_INIT

\* the step is line 57 executed by context t
StoresFlag(t) == pc[t] = "branch" /\ pc'[t] = "init_video"

C9_FlagOneWay ==
    [][(IS_INIT => IS_INIT') /\ FALSE \notin written']_vars

\* the flag is Initialized and has been stored to, an init() call has
\* returned, a token was made by global_unchecked() and a Framebuffer token
\* was derived
C9_Witness ==
    /\ IS_INIT
    /\ TRUE \in written
    /\ \E t \in Ctx : initLog[t] # <<>>
    /\ \E t \in Ctx : "unchecked" \in vcHeld[t]
    /\ \E t \in Ctx : fbHeld[t] # {}

(***************************************************************************)
(* Properties of iotype2                                                   *)
(***************************************************************************)
\* the address of the latest field, as the schema states it
LastAddress == base_adr + last.offset

LastMisaligned == LastAddress % Align(last.primitive) # 0

\* the bit-mask test and the modulo test agree on every value of the type
MaskAgreesWithModulo ==
    \A p \in Primitives :
        Aligned(LastAddress % (2^WordBits), Align(p))
            <=> (LastAddress % (2^WordBits)) % Align(p) = 0

\* C6: for every base address, offset and width, iotype2 rejects the schema
\* if and only if (base_address + offset) mod width_bytes # 0; the bit-mask
\* test agrees with the modulo test and no misaligned field is accepted.
C6_RejectsIffMisaligned ==
    last.outcome # "none"
        => /\ last.outcome # "accepted" <=> LastMisaligned
           /\ MaskAgreesWithModulo

\* C6, amended: when base_address + offset fits the integer type, iotype2
\* aborts with 'unaligned IO register' if and only if the address is
\* misaligned and accepts the field otherwise; on every input the bit-mask
\* test agrees with the modulo test and no misaligned field is accepted.
C6_RejectsIffMisalignedWithoutOverflow ==
    last.outcome # "none"
        => /\ LastAddress < 2^WordBits
                => /\ last.outcome = "unaligned" <=> LastMisaligned
                   /\ last.outcome = "accepted" <=> ~LastMisaligned
           /\ last.outcome = "accepted" => ~LastMisaligned
           /\ MaskAgreesWithModulo

\* a 32-bit field at offset 2 of a 4-byte-aligned base has been rejected
C6_Witness ==
    /\ last.outcome = "unaligned"
    /\ last.primitive = "U32"
    /\ last.offset = 2
    /\ base_adr % 4 = 0
    /\ base_adr > 0

\* C7: every field of an emitted accessor module has its offset inside the
\* declared block.
C7_EmittedOffsetsWithinLength ==
    io_pc = "emitted" => \A i \in 1..Len(fns) : fns[i].offset < len

(***************************************************************************)
(* Properties of the record-splitting loop                                 *)
(***************************************************************************)
RECURSIVE SkipNewlines(_)
SkipNewlines(s) == IF s # <<>> /\ s[1] = "n" THEN SkipNewlines(Tail(s)) ELSE s

\* the end of the object that opens s, 0 when s opens with none
FirstObjectEnd(s) ==
    LET ends == {k \in 1..Len(s) : BalancedObject(SubSeq(s, 1, k))}
    IN  IF ends = {} THEN 0 ELSE CHOOSE k \in ends : TRUE

\* s is a concatenation of brace-balanced objects, each followed by any
\* number of newlines
RECURSIVE WellFormed(_)
WellFormed(s) ==
    \/ s = <<>>
    \/ /\ FirstObjectEnd(s) > 0
       /\ WellFormed(SkipNewlines(SubSeq(s, FirstObjectEnd(s) + 1, Len(s))))

\* the objects of a well-formed s, in order
RECURSIVE ObjectsOf(_)
ObjectsOf(s) ==
    IF s = <<>> THEN <<>>
    ELSE <<SubSeq(s, 1, FirstObjectEnd(s))>>
             \o ObjectsOf(SkipNewlines(SubSeq(s, FirstObjectEnd(s) + 1, Len(s))))

\* C10: on a concatenation of brace-balanced objects the loop yields exactly
\* one string per object, in order, each from the opening brace through the
\* matching closing brace, and no empty or truncated record.
C10_OneRecordPerObject ==
    (WellFormed(utf8) /\ sp_pc \in {"done", "panicked"})
        => strings = ObjectsOf(utf8)

=============================================================================
